---- MODULE Spec2Model ----
(***************************************************************************)
(* The inequality join (IEJoin) of polars-ops, frame/join/iejoin/mod.rs:   *)
(* the driver iejoin, the kernel ie_join_impl_t with its strict walk and   *)
(* traverse_l2_array_non_strict, and the L1 helpers.                       *)
(* After it, the horizontal concatenation source of polars-pipe,           *)
(* executors/sources/hconcat.rs, with a specification of its own,          *)
(* HConcatSpec.                                                            *)
(*                                                                         *)
(* Arrays are sequences that hold 0-based indices, as the source does;     *)
(* At(s, i) reads position i of the source's array.                        *)
(***************************************************************************)
EXTENDS Integers, Sequences, FiniteSets, TLC

\* Bounds of the model.
MaxRows == 2
MaxVal == 2
MaxNulls == 1
MaxSel == 3
MaxOff == 1
MaxLen == 1

\* A null slot of a column (the validity bitmap says "absent").
Null == 0
Values == 1 .. MaxVal
Cells == Values \cup {Null}

InequalityOperator == {"Lt", "LtEq", "Gt", "GtEq"}

is_strict(op) == op \in {"Gt", "Lt"}

At(s, i) == s[i + 1]

Min2(a, b) == IF a < b THEN a ELSE b

Clamp(v, lo, hi) == IF v < lo THEN lo ELSE IF v > hi THEN hi ELSE v

\* Option<(i64, usize)> and Option<i64>
NoSlice == [some |-> FALSE, offset |-> 0, len |-> 0]
SomeSlice(o, l) == [some |-> TRUE, offset |-> o, len |-> l]
NoEnd == [some |-> FALSE, end |-> 0]
SomeEnd(e) == [some |-> TRUE, end |-> e]

(***************************************************************************)
(* Collaborators of the driver: the sort primitive, slice and take.        *)
(***************************************************************************)

null_count(col) == Cardinality({k \in 1 .. Len(col) : col[k] = Null})

\* The order of a stable sort with nulls first: index a comes before index b.
SortsBefore(col, descending, a, b) ==
    LET va == At(col, a)
        vb == At(col, b)
    IN  IF va = Null \/ vb = Null
        THEN IF va = Null /\ vb = Null THEN a < b ELSE va = Null
        ELSE IF va = vb THEN a < b
        ELSE IF descending THEN va > vb ELSE va < vb

arg_sort(col, descending) ==
    LET idx == 0 .. Len(col) - 1
    IN  [k \in 1 .. Len(col) |->
            CHOOSE a \in idx :
                Cardinality({b \in idx : SortsBefore(col, descending, b, a)}) = k - 1]

\* slice(offset, len) of the dataframe runtime: a negative offset counts from
\* the end, and the window is clamped to the array.
slice_offsets(offset, length, array_len) ==
    LET start == IF offset < 0 THEN offset + array_len ELSE offset
        stop == start + length
        cstart == Clamp(start, 0, array_len)
        cstop == Clamp(stop, 0, array_len)
    IN  <<cstart, cstop - cstart>>

ca_slice(s, offset, length) ==
    LET so == slice_offsets(offset, length, Len(s))
    IN  SubSeq(s, so[1] + 1, so[1] + so[2])

take_unchecked(col, idx) == [k \in 1 .. Len(idx) |-> At(col, idx[k])]

(***************************************************************************)
(* Filtered bit array.                                                     *)
(***************************************************************************)

from_len_zeroed(n) == [k \in 1 .. n |-> FALSE]

set_bit_unchecked(bit_array, index) == [bit_array EXCEPT ![index + 1] = TRUE]

\* The set bits at positions >= start, in ascending order.
RECURSIVE on_set_bits_from(_, _)
on_set_bits_from(bit_array, start) ==
    IF start >= Len(bit_array) THEN <<>>
    ELSE (IF At(bit_array, start) THEN <<start>> ELSE <<>>)
            \o on_set_bits_from(bit_array, start + 1)

(***************************************************************************)
(* L1 array.                                                               *)
(***************************************************************************)

\* build_l1_array with the Left rows numbered from 0.
build_l1_array_zero_based(values, order, right_df_offset) ==
    [k \in 1 .. Len(order) |->
        LET index == order[k]
        IN  [row_index |-> IF index < right_df_offset
                           THEN index
                           ELSE -(index - right_df_offset) - 1,
             value |-> At(values, index)]]

\* build_l1_array with the Right rows numbered by their global index.
build_l1_array_global_rhs(values, order, right_df_offset) ==
    [k \in 1 .. Len(order) |->
        LET index == order[k]
        IN  [row_index |-> IF index < right_df_offset
                           THEN index + 1
                           ELSE -index - 1,
             value |-> At(values, index)]]

\* build_l1_array with the first Right row taken for a Left row.
build_l1_array_off_by_one(values, order, right_df_offset) ==
    [k \in 1 .. Len(order) |->
        LET index == order[k]
        IN  [row_index |-> IF index <= right_df_offset
                           THEN index + 1
                           ELSE -(index - right_df_offset) - 1,
             value |-> At(values, index)]]

build_l1_array(values, order, right_df_offset) ==
    [k \in 1 .. Len(order) |->
        LET index == order[k]
        IN  [row_index |-> IF index < right_df_offset
                           THEN index + 1
                           ELSE -(index - right_df_offset) - 1,
             value |-> At(values, index)]]

\* The partition point of a slice, given the predicate's value on each of
\* its elements: the length of the longest prefix on which it holds.
partition_point_exponential(pred) ==
    CHOOSE k \in 0 .. Len(pred) :
        /\ \A m \in 1 .. k : pred[m]
        /\ k = Len(pred) \/ ~pred[k + 1]

\* find_search_start_index that returns the offset within sub_l1.
find_search_start_index_no_offset(l1_array, index, operator) ==
    LET sub_l1 == SubSeq(l1_array, index + 1, Len(l1_array))
        value == At(l1_array, index).value
    IN  CASE operator = "Gt" ->
                partition_point_exponential([m \in DOMAIN sub_l1 |-> sub_l1[m].value >= value])
          [] operator = "Lt" ->
                partition_point_exponential([m \in DOMAIN sub_l1 |-> sub_l1[m].value <= value])
          [] operator = "GtEq" ->
                partition_point_exponential([m \in DOMAIN sub_l1 |-> value < sub_l1[m].value])
          [] operator = "LtEq" ->
                partition_point_exponential([m \in DOMAIN sub_l1 |-> value > sub_l1[m].value])

\* find_search_start_index with the predicate of <= used for <.
find_search_start_index_inclusive(l1_array, index, operator) ==
    LET sub_l1 == SubSeq(l1_array, index + 1, Len(l1_array))
        value == At(l1_array, index).value
    IN  CASE operator = "Gt" ->
                partition_point_exponential([m \in DOMAIN sub_l1 |-> sub_l1[m].value >= value]) + index
          [] operator = "Lt" ->
                partition_point_exponential([m \in DOMAIN sub_l1 |-> value > sub_l1[m].value]) + index
          [] operator = "GtEq" ->
                partition_point_exponential([m \in DOMAIN sub_l1 |-> value < sub_l1[m].value]) + index
          [] operator = "LtEq" ->
                partition_point_exponential([m \in DOMAIN sub_l1 |-> value > sub_l1[m].value]) + index

find_search_start_index(l1_array, index, operator) ==
    LET sub_l1 == SubSeq(l1_array, index + 1, Len(l1_array))
        value == At(l1_array, index).value
    IN  CASE operator = "Gt" ->
                partition_point_exponential([m \in DOMAIN sub_l1 |-> sub_l1[m].value >= value]) + index
          [] operator = "Lt" ->
                partition_point_exponential([m \in DOMAIN sub_l1 |-> sub_l1[m].value <= value]) + index
          [] operator = "GtEq" ->
                partition_point_exponential([m \in DOMAIN sub_l1 |-> value < sub_l1[m].value]) + index
          [] operator = "LtEq" ->
                partition_point_exponential([m \in DOMAIN sub_l1 |-> value > sub_l1[m].value]) + index

\* find_matches_in_l1 with the left row pushed once for the whole scan.
find_matches_in_l1_left_once(l1_array, l1_index, row_index, bit_array, op1, left_row_ids, right_row_ids) ==
    LET start_index == find_search_start_index(l1_array, l1_index, op1)
        set_bits == on_set_bits_from(bit_array, start_index)
    IN  [left_row_ids |-> Append(left_row_ids, row_index - 1),
         right_row_ids |-> right_row_ids \o
            [m \in 1 .. Len(set_bits) |-> (-At(l1_array, set_bits[m]).row_index) - 1],
         bit_array |-> bit_array,
         match_count |-> Len(set_bits)]

\* find_matches_in_l1 with the set bits visited from the last to the first.
find_matches_in_l1_reversed(l1_array, l1_index, row_index, bit_array, op1, left_row_ids, right_row_ids) ==
    LET start_index == find_search_start_index(l1_array, l1_index, op1)
        set_bits == on_set_bits_from(bit_array, start_index)
        n == Len(set_bits)
    IN  [left_row_ids |-> left_row_ids \o
            [m \in 1 .. n |-> row_index - 1],
         right_row_ids |-> right_row_ids \o
            [m \in 1 .. n |-> (-At(l1_array, set_bits[n + 1 - m]).row_index) - 1],
         bit_array |-> bit_array,
         match_count |-> n]

\* The vectors after the matches of one Left entry are appended, and their count.
find_matches_in_l1(l1_array, l1_index, row_index, bit_array, op1, left_row_ids, right_row_ids) ==
    LET start_index == find_search_start_index(l1_array, l1_index, op1)
        set_bits == on_set_bits_from(bit_array, start_index)
    IN  [left_row_ids |-> left_row_ids \o
            [m \in 1 .. Len(set_bits) |-> row_index - 1],
         right_row_ids |-> right_row_ids \o
            [m \in 1 .. Len(set_bits) |-> (-At(l1_array, set_bits[m]).row_index) - 1],
         bit_array |-> bit_array,
         match_count |-> Len(set_bits)]

\* process_entry that marks the entry whatever its side.
process_entry_mark_all(l1_array, l1_index, bit_array, op1, left_row_ids, right_row_ids) ==
    LET row_index == At(l1_array, l1_index).row_index
        from_lhs == row_index > 0
    IN  IF from_lhs
        THEN [find_matches_in_l1(l1_array, l1_index, row_index, bit_array, op1,
                                 left_row_ids, right_row_ids)
                EXCEPT !.bit_array = set_bit_unchecked(bit_array, l1_index)]
        ELSE [left_row_ids |-> left_row_ids,
              right_row_ids |-> right_row_ids,
              bit_array |-> set_bit_unchecked(bit_array, l1_index),
              match_count |-> 0]

process_entry(l1_array, l1_index, bit_array, op1, left_row_ids, right_row_ids) ==
    LET row_index == At(l1_array, l1_index).row_index
        from_lhs == row_index > 0
    IN  IF from_lhs
        THEN find_matches_in_l1(l1_array, l1_index, row_index, bit_array, op1,
                                left_row_ids, right_row_ids)
        ELSE [left_row_ids |-> left_row_ids,
              right_row_ids |-> right_row_ids,
              bit_array |-> set_bit_unchecked(bit_array, l1_index),
              match_count |-> 0]

process_lhs_entry(l1_array, l1_index, bit_array, op1, left_row_ids, right_row_ids) ==
    LET row_index == At(l1_array, l1_index).row_index
        from_lhs == row_index > 0
    IN  IF from_lhs
        THEN find_matches_in_l1(l1_array, l1_index, row_index, bit_array, op1,
                                left_row_ids, right_row_ids)
        ELSE [left_row_ids |-> left_row_ids,
              right_row_ids |-> right_row_ids,
              bit_array |-> bit_array,
              match_count |-> 0]

\* mark_visited that marks the entry whatever its side.
mark_visited_any_side(l1_array, index, bit_array) ==
    set_bit_unchecked(bit_array, index)

\* mark_visited with the test of the side inverted.
mark_visited_inverted(l1_array, index, bit_array) ==
    LET from_lhs == At(l1_array, index).row_index > 0
    IN  IF from_lhs THEN set_bit_unchecked(bit_array, index) ELSE bit_array

mark_visited(l1_array, index, bit_array) ==
    LET from_lhs == At(l1_array, index).row_index > 0
    IN  IF ~from_lhs THEN set_bit_unchecked(bit_array, index) ELSE bit_array

(***************************************************************************)
(* The kernel, ie_join_impl_t.  Its loop state is a record k; e holds what *)
(* the loops only read: l1_array, l2_order, y_ordered, op1, slice_end.     *)
(***************************************************************************)

\* slice_end without the test of the sign of the offset.
slice_end_any_offset(sl) ==
    IF sl.some
    THEN SomeEnd(sl.offset + sl.len)
    ELSE NoEnd

\* slice_end without the length of the slice.
slice_end_without_len(sl) ==
    IF sl.some /\ sl.offset >= 0
    THEN SomeEnd(sl.offset)
    ELSE NoEnd

slice_end_of(sl) ==
    IF sl.some /\ sl.offset >= 0
    THEN SomeEnd(sl.offset + sl.len)
    ELSE NoEnd

slice_end_reached(slice_end, match_count) ==
    slice_end.some /\ match_count >= slice_end.end

\* Lines 54-68: the bit array, the empty vectors, and the choice of the walk.
kernel_start(l1_order, l2_order, op2) ==
    [pc |-> IF Len(l2_order) = 0 THEN "kernel_done"
            ELSE IF is_strict(op2) THEN "strict" ELSE "ns_loop",
     bit_array |-> from_len_zeroed(Len(l1_order)),
     left_row_idx |-> <<>>,
     right_row_idx |-> <<>>,
     match_count |-> 0,
     i |-> 0,
     j |-> 0,
     run_start |-> 0,
     prev_value |-> 0]

\* One iteration of the strict walk, `for &p in l2_order`.
strict_iteration(e, k) ==
    LET p == At(e.l2_order, k.i)
        r == process_entry(e.l1_array, p, k.bit_array, e.op1,
                           k.left_row_idx, k.right_row_idx)
        mc == k.match_count + r.match_count
    IN  [k EXCEPT
            !.bit_array = r.bit_array,
            !.left_row_idx = r.left_row_ids,
            !.right_row_idx = r.right_row_ids,
            !.match_count = mc,
            !.i = k.i + 1,
            !.pc = IF slice_end_reached(e.slice_end, mc) \/ k.i + 1 >= Len(e.l2_order)
                   THEN "kernel_done" ELSE "strict"]

\* Lines 453-455 of an iteration of the non-strict walk: mark, remember the
\* value, and go on to the next position or to the last flush.
non_strict_advance(e, k) ==
    LET l1_index == At(e.l2_order, k.i)
        value == At(e.y_ordered, l1_index)
        last == k.i + 1 >= Len(e.l2_order)
    IN  [k EXCEPT
            !.bit_array = mark_visited(e.l1_array, l1_index, k.bit_array),
            !.prev_value = value,
            !.i = k.i + 1,
            !.j = IF last THEN k.run_start ELSE k.j,
            !.pc = IF last THEN "ns_final" ELSE "ns_loop"]

\* non_strict_iteration that marks the entry of the new run before the flush
\* of the run it ends.
non_strict_iteration_mark_first(e, k) ==
    LET l1_index == At(e.l2_order, k.i)
        value == At(e.y_ordered, l1_index)
    IN  IF k.i > 0 /\ value # k.prev_value
        THEN [k EXCEPT !.pc = "ns_flush", !.j = k.run_start,
                       !.bit_array = mark_visited(e.l1_array, l1_index, k.bit_array)]
        ELSE non_strict_advance(e, k)

\* The head of an iteration of the non-strict walk: a run boundary starts the
\* flush of the run [run_start, i).
non_strict_iteration(e, k) ==
    LET l1_index == At(e.l2_order, k.i)
        value == At(e.y_ordered, l1_index)
    IN  IF k.i > 0 /\ value # k.prev_value
        THEN [k EXCEPT !.pc = "ns_flush", !.j = k.run_start]
        ELSE non_strict_advance(e, k)

\* One step of `for j in run_start..i`.
flush_entry(e, k) ==
    LET p == At(e.l2_order, k.j)
        r == process_lhs_entry(e.l1_array, p, k.bit_array, e.op1,
                               k.left_row_idx, k.right_row_idx)
    IN  [k EXCEPT
            !.left_row_idx = r.left_row_ids,
            !.right_row_idx = r.right_row_ids,
            !.match_count = k.match_count + r.match_count,
            !.j = k.j + 1]

\* flush_end that leaves run_start where it was.
flush_end_keep_run_start(e, k) ==
    IF slice_end_reached(e.slice_end, k.match_count)
    THEN [k EXCEPT !.pc = "kernel_done"]
    ELSE non_strict_advance(e, k)

\* After the flush: the early return, or the new run and the rest of the
\* iteration.
flush_end(e, k) ==
    IF slice_end_reached(e.slice_end, k.match_count)
    THEN [k EXCEPT !.pc = "kernel_done"]
    ELSE non_strict_advance(e, [k EXCEPT !.run_start = k.i])

\* final_flush_entry over `run_start..=order.len()`.
final_flush_entry_inclusive(e, k) ==
    LET p == At(e.l2_order, k.j)
        r == process_lhs_entry(e.l1_array, p, k.bit_array, e.op1,
                               k.left_row_idx, k.right_row_idx)
    IN  [k EXCEPT
            !.left_row_idx = r.left_row_ids,
            !.right_row_idx = r.right_row_ids,
            !.j = k.j + 1,
            !.pc = IF k.j + 1 > Len(e.l2_order) THEN "kernel_done" ELSE "ns_final"]

\* One step of the last flush, `for j in run_start..order.len()`; its count
\* is dropped.
final_flush_entry(e, k) ==
    LET p == At(e.l2_order, k.j)
        r == process_lhs_entry(e.l1_array, p, k.bit_array, e.op1,
                               k.left_row_idx, k.right_row_idx)
    IN  [k EXCEPT
            !.left_row_idx = r.left_row_ids,
            !.right_row_idx = r.right_row_ids,
            !.j = k.j + 1,
            !.pc = IF k.j + 1 >= Len(e.l2_order) THEN "kernel_done" ELSE "ns_final"]

kernel_step(e, k) ==
    CASE k.pc = "strict" -> strict_iteration(e, k)
      [] k.pc = "ns_loop" -> non_strict_iteration(e, k)
      [] k.pc = "ns_flush" -> IF k.j < k.i THEN flush_entry(e, k) ELSE flush_end(e, k)
      [] k.pc = "ns_final" -> final_flush_entry(e, k)

RECURSIVE run_kernel(_, _)
run_kernel(e, k) ==
    IF k.pc = "kernel_done" THEN k ELSE run_kernel(e, kernel_step(e, k))

(***************************************************************************)
(* The driver, iejoin.                                                     *)
(***************************************************************************)

\* validate with the right side looked at first.
validate_right_first(left_len, right_len) ==
    IF right_len # 2 THEN "right"
    ELSE IF left_len # 2 THEN "left"
    ELSE "ok"

\* Lines 111-120: the side the ComputeError names, or "ok".
validate(left_len, right_len) ==
    IF left_len # 2 THEN "left"
    ELSE IF right_len # 2 THEN "right"
    ELSE "ok"

\* l1_descending that forgets >=.
l1_descending_gt_only(op1) == op1 \in {"Gt"}

l1_descending(op1) == op1 \in {"Gt", "GtEq"}

\* l2_descending that forgets <=.
l2_descending_lt_only(op2) == op2 \in {"Lt"}

\* l2_descending with the direction of l1_descending.
l2_descending_flipped(op2) == op2 \in {"Gt", "GtEq"}

l2_descending(op2) == op2 \in {"Lt", "LtEq"}

\* sort_axes that keeps the positions of a null y in the second order.
sort_axes_keeping_null_y(x, y, op1, op2) ==
    LET l1 == ca_slice(arg_sort(x, l1_descending(op1)),
                       null_count(x), Len(x) - null_count(x))
        yo == take_unchecked(y, l1)
        l2 == arg_sort(yo, l2_descending(op2))
    IN  [l1_order |-> l1, y_ordered |-> yo, l2_order |-> l2]

\* Lines 144-167: the order of x without its nulls, y in that order, and the
\* order of that without its nulls.
sort_axes(x, y, op1, op2) ==
    LET l1 == ca_slice(arg_sort(x, l1_descending(op1)),
                    null_count(x), Len(x) - null_count(x))
        yo == take_unchecked(y, l1)
        l2 == ca_slice(arg_sort(yo, l2_descending(op2)),
                    null_count(yo), Len(yo) - null_count(yo))
    IN  [l1_order |-> l1, y_ordered |-> yo, l2_order |-> l2]

kernel_env(sl, s, op1, x, left_height) ==
    [l1_array |-> build_l1_array(x, s.l1_order, left_height),
     l2_order |-> s.l2_order,
     y_ordered |-> s.y_ordered,
     op1 |-> op1,
     slice_end |-> slice_end_of(sl)]

\* The vectors the kernel returns.
ie_join_impl_t(sl, s, op1, op2, x, left_height) ==
    run_kernel(kernel_env(sl, s, op1, x, left_height),
               kernel_start(s.l1_order, s.l2_order, op2))

\* Lines 185-191.
apply_slice(sl, idx) ==
    IF sl.some THEN ca_slice(idx, sl.offset, sl.len) ELSE idx

\* The row pairs of the table iejoin returns, for valid selections.
iejoin(xL, yL, xR, yR, op1, op2, sl) ==
    LET x == xL \o xR
        y == yL \o yR
        k == ie_join_impl_t(sl, sort_axes(x, y, op1, op2), op1, op2, x, Len(xL))
    IN  [left |-> apply_slice(sl, k.left_row_idx),
         right |-> apply_slice(sl, k.right_row_idx)]

(***************************************************************************)
(* The horizontal concatenation source of polars-pipe,                     *)
(* executors/sources/hconcat.rs.  A DataChunk is a record of a chunk_index *)
(* and its data, the sequence of its rows; a row of an input source is the *)
(* number it has in that source's own emission order, from 1, and a row    *)
(* of the output is the tuple of the rows of the sources, Null where a     *)
(* column is padded.  A buffer of source_data is the source's Vec: its     *)
(* last element is the one pop() takes.                                    *)
(***************************************************************************)

\* Bounds of the model.
NumSources == 2
MaxBatches == 2
MaxChunks == 2
MaxHeight == 2

SourceIds == 1 .. NumSources

DataChunk(chunk_index, data) == [chunk_index |-> chunk_index, data |-> data]

height(data) == Len(data)

reverse(s) == [k \in 1 .. Len(s) |-> s[Len(s) + 1 - k]]

\* The heights of the chunks of a sequence, and their sum.
heights(chunks) == [k \in 1 .. Len(chunks) |-> height(chunks[k].data)]

RECURSIVE sum(_)
sum(sizes) == IF sizes = <<>> THEN 0 ELSE Head(sizes) + sum(Tail(sizes))

\* DataFrame::slice(offset, length), offset >= 0.
df_slice(data, offset, length) ==
    SubSeq(data, Min2(offset, Len(data)) + 1, Min2(offset + length, Len(data)))

\* An input source: the batches it has still to give, as the heights of
\* their chunks, and the rows and chunks it has given.
RECURSIVE make_chunks(_, _, _)
make_chunks(sizes, given_rows, given_chunks) ==
    IF sizes = <<>> THEN <<>>
    ELSE <<DataChunk(given_chunks,
                     [k \in 1 .. Head(sizes) |-> given_rows + k])>>
         \o make_chunks(Tail(sizes), given_rows + Head(sizes), given_chunks + 1)

\* source.get_batches(context) of an input source: Finished once it has no
\* batch left, and from then on.
source_get_batches(source) ==
    IF source.pending = <<>>
    THEN [finished |-> TRUE, data |-> <<>>, source |-> source]
    ELSE LET sizes == Head(source.pending)
         IN  [finished |-> FALSE,
              data |-> make_chunks(sizes, source.given_rows, source.given_chunks),
              source |-> [pending |-> Tail(source.pending),
                          given_rows |-> source.given_rows + sum(sizes),
                          given_chunks |-> source.given_chunks + Len(sizes)]]

NoSizes == [some |-> FALSE, sizes |-> <<>>, total_size |-> 0]

SomeSizes(sizes) == [some |-> TRUE, sizes |-> sizes, total_size |-> sum(sizes)]

\* Lines 70-81: the source is asked until its buffer holds total_size rows
\* or it has finished.
RECURSIVE populate(_, _, _, _)
populate(source, source_data, source_total_size, total_size) ==
    IF source_total_size < total_size
    THEN LET source_result == source_get_batches(source)
         IN  IF source_result.finished
             THEN [source |-> source_result.source, source_data |-> source_data,
                   finished |-> TRUE]
             ELSE populate(source_result.source,
                           source_data \o reverse(source_result.data),
                           source_total_size + sum(heights(source_result.data)),
                           total_size)
    ELSE [source |-> source, source_data |-> source_data, finished |-> FALSE]

\* fetch_source that asks the source even when its buffer holds chunks.
fetch_source_always_asking(g, s) ==
    IF ~g.chunk_sizes.some
    THEN LET source_result == source_get_batches(g.sources[s])
         IN  IF source_result.finished
             THEN [g EXCEPT !.finished = @ \cup {s}]
             ELSE [g EXCEPT
                      !.sources[s] = source_result.source,
                      !.source_data[s] = @ \o reverse(source_result.data),
                      !.chunk_sizes = SomeSizes(heights(reverse(
                          g.source_data[s] \o reverse(source_result.data))))]
    ELSE LET r == populate(g.sources[s], g.source_data[s],
                           sum(heights(g.source_data[s])), g.chunk_sizes.total_size)
         IN  [g EXCEPT
                 !.sources[s] = r.source,
                 !.source_data[s] = r.source_data,
                 !.finished = IF r.finished THEN @ \cup {s} ELSE @]

\* Lines 41-83: one turn of the first loop, for the source s.  g holds the
\* sources, their buffers, chunk_sizes, and the sources that said Finished.
fetch_source(g, s) ==
    IF ~g.chunk_sizes.some
    THEN IF g.source_data[s] = <<>>
         THEN LET source_result == source_get_batches(g.sources[s])
              IN  IF source_result.finished
                  THEN [g EXCEPT !.finished = @ \cup {s}]
                  ELSE [g EXCEPT
                           !.sources[s] = source_result.source,
                           !.source_data[s] = reverse(source_result.data),
                           !.chunk_sizes = SomeSizes(heights(source_result.data))]
         ELSE [g EXCEPT
                  !.chunk_sizes = SomeSizes(heights(reverse(g.source_data[s])))]
    ELSE LET r == populate(g.sources[s], g.source_data[s],
                           sum(heights(g.source_data[s])), g.chunk_sizes.total_size)
         IN  [g EXCEPT
                 !.sources[s] = r.source,
                 !.source_data[s] = r.source_data,
                 !.finished = IF r.finished THEN @ \cup {s} ELSE @]

\* Lines 39-84.
RECURSIVE fetch_sources(_, _)
fetch_sources(g, s) ==
    IF s > NumSources THEN g ELSE fetch_sources(fetch_source(g, s), s + 1)

\* Lines 102-133: rows are popped off a buffer until row_count of them are
\* there or the buffer is empty; a chunk of no rows on top is popped too.
RECURSIVE take_rows(_, _, _)
take_rows(source_data, row_count, source_dfs) ==
    IF \/ Len(source_dfs) < row_count
       \/ (source_data # <<>> /\ height(source_data[Len(source_data)].data) = 0)
    THEN IF source_data = <<>>
         THEN [source_data |-> source_data, source_dfs |-> source_dfs]
         ELSE LET required_rows == row_count - Len(source_dfs)
                  chunk == source_data[Len(source_data)]
                  popped == SubSeq(source_data, 1, Len(source_data) - 1)
                  chunk_height == height(chunk.data)
                  slice == df_slice(chunk.data, 0, required_rows)
                  slice_height == height(slice)
                  remainder_len == chunk_height - slice_height
                  remainder == df_slice(chunk.data, slice_height, remainder_len)
              IN  take_rows(IF remainder_len > 0
                            THEN Append(popped, DataChunk(chunk.chunk_index, remainder))
                            ELSE popped,
                            row_count,
                            source_dfs \o slice)
    ELSE [source_data |-> source_data, source_dfs |-> source_dfs]

Max2(a, b) == IF a > b THEN a ELSE b

RECURSIVE max_height(_)
max_height(chunk_dfs) ==
    IF chunk_dfs = <<>> THEN 0
    ELSE Max2(Len(Head(chunk_dfs)), max_height(Tail(chunk_dfs)))

\* concat_df_horizontal: the frames side by side, the short ones padded
\* with nulls to the height of the tallest.
concat_df_horizontal(chunk_dfs) ==
    [r \in 1 .. max_height(chunk_dfs) |->
        [s \in 1 .. Len(chunk_dfs) |->
            IF r <= Len(chunk_dfs[s]) THEN chunk_dfs[s][r] ELSE Null]]

\* Lines 96-151: one output chunk of row_count rows, and the buffers after.
build_chunk(source_data, row_count, chunk_index) ==
    LET taken == [s \in SourceIds |-> take_rows(source_data[s], row_count, <<>>)]
        chunk_dfs == [s \in SourceIds |-> taken[s].source_dfs]
    IN  [source_data |-> [s \in SourceIds |-> taken[s].source_data],
         chunk |-> DataChunk(chunk_index, concat_df_horizontal(chunk_dfs))]

\* build_chunks without the increment of line 153.
RECURSIVE build_chunks_same_index(_, _, _, _)
build_chunks_same_index(source_data, chunk_sizes, chunk_index, chunks) ==
    IF chunk_sizes = <<>>
    THEN [source_data |-> source_data, chunk_index |-> chunk_index, chunks |-> chunks]
    ELSE LET b == build_chunk(source_data, Head(chunk_sizes), chunk_index)
         IN  build_chunks_same_index(b.source_data, Tail(chunk_sizes), chunk_index,
                                     Append(chunks, b.chunk))

\* Lines 95-154.
RECURSIVE build_chunks(_, _, _, _)
build_chunks(source_data, chunk_sizes, chunk_index, chunks) ==
    IF chunk_sizes = <<>>
    THEN [source_data |-> source_data, chunk_index |-> chunk_index, chunks |-> chunks]
    ELSE LET b == build_chunk(source_data, Head(chunk_sizes), chunk_index)
         IN  build_chunks(b.source_data, Tail(chunk_sizes), chunk_index + 1,
                          Append(chunks, b.chunk))

\* Lines 33-159: HConcatSource::get_batches on the state h.
get_batches(h) ==
    LET g == fetch_sources([sources |-> h.sources, source_data |-> h.source_data,
                            chunk_sizes |-> NoSizes, finished |-> {}], 1)
    IN  IF ~g.chunk_sizes.some
        THEN [sources |-> g.sources, source_data |-> g.source_data,
              chunk_index |-> h.chunk_index, finished |-> g.finished,
              result |-> "Finished", chunks |-> <<>>]
        ELSE LET b == build_chunks(g.source_data, g.chunk_sizes.sizes,
                                   h.chunk_index, <<>>)
             IN  [sources |-> g.sources, source_data |-> b.source_data,
                  chunk_index |-> b.chunk_index, finished |-> g.finished,
                  result |-> "GotMoreData", chunks |-> b.chunks]

VARIABLES
    sources,        \* the input sources
    source_data,    \* the buffer of each source
    chunk_index,    \* self.chunk_index
    returned,       \* what the last call returned: "none", "Finished", "GotMoreData"
    chunks,         \* the chunks the last call returned
    finished,       \* the sources that said Finished during the last call
    emitted         \* the rows of all the chunks returned so far

hconcat_vars == <<sources, source_data, chunk_index, returned, chunks, finished, emitted>>

\* Lines 17-29, with no source.
no_hconcat ==
    /\ sources = <<>>
    /\ source_data = <<>>
    /\ chunk_index = 0
    /\ returned = "none"
    /\ chunks = <<>>
    /\ finished = {}
    /\ emitted = <<>>

(***************************************************************************)
(* The state machine: one call of iejoin, a step at a time.                *)
(***************************************************************************)

VARIABLES
    pc,                  \* where the call is
    selected_left_len,   \* selected_left.len()
    selected_right_len,  \* selected_right.len()
    operator1,           \* options.operator1
    operator2,           \* options.operator2
    slice,               \* the slice argument
    left_height,         \* left.height()
    x,                   \* the concatenated x column
    y,                   \* the concatenated y column
    l1_order,
    y_ordered,
    l2_order,
    l1_array,
    slice_end,
    bit_array,
    left_row_idx,
    right_row_idx,
    match_count,
    i,                   \* the position of the walk in l2_order
    j,                   \* the position of a flush in l2_order
    run_start,
    prev_value,
    result,              \* "none", "Ok", or the side a ComputeError names
    join_left,           \* the rows taken from left
    join_right           \* the rows taken from right

input_vars == <<selected_left_len, selected_right_len, operator1, operator2, slice>>

axis_vars == <<left_height, x, y, l1_order, y_ordered, l2_order>>

kernel_vars == <<l1_array, slice_end, bit_array, left_row_idx, right_row_idx,
                 match_count, i, j, run_start, prev_value>>

output_vars == <<result, join_left, join_right>>

iejoin_vars == <<pc, input_vars, axis_vars, kernel_vars, output_vars>>

vars == <<iejoin_vars, hconcat_vars>>

Slices ==
    {NoSlice} \cup {SomeSlice(o, l) : o \in (-MaxOff) .. MaxOff, l \in 0 .. MaxLen}

\* The columns of n rows.
Columns(n) == [1 .. n -> Cells]

\* Those with at most `nulls` null entries.
ColumnsWithin(n, nulls) == {c \in Columns(n) : null_count(c) <= nulls}

Init ==
    /\ pc = "start"
    /\ selected_left_len \in 0 .. MaxSel
    /\ selected_right_len \in 0 .. MaxSel
    /\ operator1 \in InequalityOperator
    /\ operator2 \in InequalityOperator
    /\ slice \in Slices
    /\ left_height = 0
    /\ x = <<>>
    /\ y = <<>>
    /\ l1_order = <<>>
    /\ y_ordered = <<>>
    /\ l2_order = <<>>
    /\ l1_array = <<>>
    /\ slice_end = NoEnd
    /\ bit_array = <<>>
    /\ left_row_idx = <<>>
    /\ right_row_idx = <<>>
    /\ match_count = 0
    /\ i = 0
    /\ j = 0
    /\ run_start = 0
    /\ prev_value = 0
    /\ result = "none"
    /\ join_left = <<>>
    /\ join_right = <<>>
    /\ no_hconcat

\* The loop state of the kernel, as the record the kernel's steps work on.
K ==
    [pc |-> pc, bit_array |-> bit_array, left_row_idx |-> left_row_idx,
     right_row_idx |-> right_row_idx, match_count |-> match_count,
     i |-> i, j |-> j, run_start |-> run_start, prev_value |-> prev_value]

E ==
    [l1_array |-> l1_array, l2_order |-> l2_order, y_ordered |-> y_ordered,
     op1 |-> operator1, slice_end |-> slice_end]

SetK(k) ==
    /\ pc' = k.pc
    /\ bit_array' = k.bit_array
    /\ left_row_idx' = k.left_row_idx
    /\ right_row_idx' = k.right_row_idx
    /\ match_count' = k.match_count
    /\ i' = k.i
    /\ j' = k.j
    /\ run_start' = k.run_start
    /\ prev_value' = k.prev_value

\* Lines 111-120.
Validate ==
    /\ pc = "start"
    /\ \E v \in {validate(selected_left_len, selected_right_len)} :
        IF v = "ok"
        THEN pc' = "validated" /\ result' = result
        ELSE pc' = "error" /\ result' = v
    /\ UNCHANGED <<input_vars, axis_vars, kernel_vars, join_left, join_right, hconcat_vars>>

\* Lines 122-180 and 54-68: the selected columns are read, concatenated and
\* sorted, and the kernel is entered.
Prepare ==
    /\ pc = "validated"
    /\ \E nl \in 0 .. MaxRows, nr \in 0 .. MaxRows :
        \E xL \in ColumnsWithin(nl, MaxNulls) :
        \E yL \in ColumnsWithin(nl, MaxNulls - null_count(xL)) :
        \E xR \in ColumnsWithin(nr, MaxNulls - null_count(xL \o yL)) :
        \E yR \in ColumnsWithin(nr, MaxNulls - null_count(xL \o yL \o xR)) :
            /\ left_height' = nl
            /\ x' = xL \o xR
            /\ y' = yL \o yR
            /\ \E s \in {sort_axes(xL \o xR, yL \o yR, operator1, operator2)} :
                   /\ l1_order' = s.l1_order
                   /\ y_ordered' = s.y_ordered
                   /\ l2_order' = s.l2_order
                   /\ l1_array' = build_l1_array(xL \o xR, s.l1_order, nl)
                   /\ SetK(kernel_start(s.l1_order, s.l2_order, operator2))
    /\ slice_end' = slice_end_of(slice)
    /\ UNCHANGED <<input_vars, output_vars, hconcat_vars>>

\* Lines 74-88.
StrictIteration ==
    /\ pc = "strict"
    /\ \E k \in {strict_iteration(E, K)} : SetK(k)
    /\ UNCHANGED <<input_vars, axis_vars, l1_array, slice_end, output_vars, hconcat_vars>>

\* Lines 433-437 and 453-455.
NonStrictIteration ==
    /\ pc = "ns_loop"
    /\ \E k \in {non_strict_iteration(E, K)} : SetK(k)
    /\ UNCHANGED <<input_vars, axis_vars, l1_array, slice_end, output_vars, hconcat_vars>>

\* Lines 438-443.
FlushEntry ==
    /\ pc = "ns_flush"
    /\ j < i
    /\ \E k \in {flush_entry(E, K)} : SetK(k)
    /\ UNCHANGED <<input_vars, axis_vars, l1_array, slice_end, output_vars, hconcat_vars>>

\* Lines 445-455.
FlushEnd ==
    /\ pc = "ns_flush"
    /\ j >= i
    /\ \E k \in {flush_end(E, K)} : SetK(k)
    /\ UNCHANGED <<input_vars, axis_vars, l1_array, slice_end, output_vars, hconcat_vars>>

\* Lines 458-461.
FinalFlushEntry ==
    /\ pc = "ns_final"
    /\ \E k \in {final_flush_entry(E, K)} : SetK(k)
    /\ UNCHANGED <<input_vars, axis_vars, l1_array, slice_end, output_vars, hconcat_vars>>

\* Lines 182-200: the kernel has returned; slice and take.
Finish ==
    /\ pc = "kernel_done"
    /\ join_left' = apply_slice(slice, left_row_idx)
    /\ join_right' = apply_slice(slice, right_row_idx)
    /\ result' = "Ok"
    /\ pc' = "done"
    /\ UNCHANGED <<input_vars, axis_vars, kernel_vars, hconcat_vars>>

Next ==
    \/ Validate
    \/ Prepare
    \/ StrictIteration
    \/ NonStrictIteration
    \/ FlushEntry
    \/ FlushEnd
    \/ FinalFlushEntry
    \/ Finish

Spec == Init /\ [][Next]_vars

(***************************************************************************)
(* The state machine of HConcatSource: the calls of get_batches on one     *)
(* source built over NumSources input sources.                             *)
(***************************************************************************)

Heights == 0 .. MaxHeight

\* The batches an input source can give: up to MaxChunks chunks each.
BatchSizes == UNION {[1 .. n -> Heights] : n \in 0 .. MaxChunks}

Scripts == UNION {[1 .. n -> BatchSizes] : n \in 0 .. MaxBatches}

no_iejoin ==
    /\ pc = "idle"
    /\ selected_left_len = 0
    /\ selected_right_len = 0
    /\ operator1 = "Lt"
    /\ operator2 = "Lt"
    /\ slice = NoSlice
    /\ left_height = 0
    /\ x = <<>>
    /\ y = <<>>
    /\ l1_order = <<>>
    /\ y_ordered = <<>>
    /\ l2_order = <<>>
    /\ l1_array = <<>>
    /\ slice_end = NoEnd
    /\ bit_array = <<>>
    /\ left_row_idx = <<>>
    /\ right_row_idx = <<>>
    /\ match_count = 0
    /\ i = 0
    /\ j = 0
    /\ run_start = 0
    /\ prev_value = 0
    /\ result = "none"
    /\ join_left = <<>>
    /\ join_right = <<>>

\* Lines 17-29: HConcatSource::new over sources that have given nothing yet.
HConcatInit ==
    /\ no_iejoin
    /\ sources \in [SourceIds ->
                       {[pending |-> p, given_rows |-> 0, given_chunks |-> 0] :
                           p \in Scripts}]
    /\ source_data = [s \in SourceIds |-> <<>>]
    /\ chunk_index = 0
    /\ returned = "none"
    /\ chunks = <<>>
    /\ finished = {}
    /\ emitted = <<>>

\* The rows of a sequence of chunks, one after the other.
RECURSIVE rows_of(_)
rows_of(cs) == IF cs = <<>> THEN <<>> ELSE Head(cs).data \o rows_of(Tail(cs))

H == [sources |-> sources, source_data |-> source_data, chunk_index |-> chunk_index]

\* Lines 33-159: one call of get_batches.
GetBatches ==
    /\ \E r \in {get_batches(H)} :
          /\ sources' = r.sources
          /\ source_data' = r.source_data
          /\ chunk_index' = r.chunk_index
          /\ returned' = r.result
          /\ chunks' = r.chunks
          /\ finished' = r.finished
          /\ emitted' = emitted \o rows_of(r.chunks)
    /\ UNCHANGED iejoin_vars

HConcatNext == GetBatches

HConcatSpec == HConcatInit /\ [][HConcatNext]_vars

(***************************************************************************)
(* What the claims speak of.                                               *)
(***************************************************************************)

nL == left_height

nR == Len(x) - left_height

xLeft(a) == At(x, a)

yLeft(a) == At(y, a)

xRight(b) == At(x, left_height + b)

yRight(b) == At(y, left_height + b)

\* a op b, false when either side is null.
Holds(op, a, b) ==
    /\ a # Null
    /\ b # Null
    /\ CASE op = "Lt" -> a < b
         [] op = "LtEq" -> a <= b
         [] op = "Gt" -> a > b
         [] op = "GtEq" -> a >= b

\* The nested-loop oracle.
Oracle ==
    {p \in (0 .. nL - 1) \X (0 .. nR - 1) :
        /\ Holds(operator1, xLeft(p[1]), xRight(p[2]))
        /\ Holds(operator2, yLeft(p[1]), yRight(p[2]))}

PairsOf(l, r) == [m \in 1 .. Min2(Len(l), Len(r)) |-> <<l[m], r[m]>>]

PairSet(l, r) == {PairsOf(l, r)[m] : m \in 1 .. Min2(Len(l), Len(r))}

Occurrences(l, r, p) ==
    Cardinality({m \in 1 .. Min2(Len(l), Len(r)) : PairsOf(l, r)[m] = p})

Entered == pc \notin {"start", "validated", "error"}

InKernel == pc \in {"strict", "ns_loop", "ns_flush", "ns_final", "kernel_done"}

HasDuplicates(col) ==
    \E a, b \in 1 .. Len(col) : a # b /\ col[a] # Null /\ col[a] = col[b]

\* C1: the row pairs of the unsliced join are, as a multiset, the pairs of
\* the nested-loop oracle: every oracle pair is returned once and nothing
\* else is returned.
C1_OracleMultiset ==
    (pc = "done" /\ ~slice.some) =>
        /\ Len(join_left) = Len(join_right)
        /\ \A m \in 1 .. Len(join_left) : <<join_left[m], join_right[m]>> \in Oracle
        /\ \A p \in Oracle : Occurrences(join_left, join_right, p) = 1

C1_Witness ==
    /\ pc = "done"
    /\ ~slice.some
    /\ Len(join_left) >= 3
    /\ HasDuplicates(SubSeq(x, 1, nL))
    /\ HasDuplicates(SubSeq(y, nL + 1, Len(y)))

\* The pairs of the same call made with no slice.
Unsliced ==
    iejoin(SubSeq(x, 1, nL), SubSeq(y, 1, nL), SubSeq(x, nL + 1, Len(x)),
           SubSeq(y, nL + 1, Len(y)), operator1, operator2, NoSlice)

\* C2: the pairs returned under a slice are, in order, the slice of the
\* pairs returned with no slice.
C2_SliceEquivalence ==
    (pc = "done" /\ slice.some) =>
        /\ join_left = ca_slice(Unsliced.left, slice.offset, slice.len)
        /\ join_right = ca_slice(Unsliced.right, slice.offset, slice.len)

\* The kernel left early and the slice is a proper, non-empty part.
C2_Witness ==
    /\ pc = "done"
    /\ slice.some
    /\ slice.offset > 0
    /\ Len(join_left) = 1
    /\ Len(left_row_idx) < Len(Unsliced.left)

\* C3: at every point of the walk every pair appended so far satisfies both
\* inequalities.
C3_EmittedPairsSatisfy ==
    \A m \in 1 .. Len(left_row_idx) :
        /\ m <= Len(right_row_idx)
        /\ left_row_idx[m] \in 0 .. nL - 1
        /\ right_row_idx[m] \in 0 .. nR - 1
        /\ Holds(operator1, xLeft(left_row_idx[m]), xRight(right_row_idx[m]))
        /\ Holds(operator2, yLeft(left_row_idx[m]), yRight(right_row_idx[m]))

\* Mid-walk, a pair is out, and the tables hold equal x and equal y values
\* across the sides under strict operators.
C3_Witness ==
    /\ pc \in {"strict", "ns_flush", "ns_final"}
    /\ Len(left_row_idx) >= 1
    /\ is_strict(operator1)
    /\ \E a \in 0 .. nL - 1, b \in 0 .. nR - 1 :
          xLeft(a) # Null /\ xLeft(a) = xRight(b)
    /\ \E a \in 0 .. nL - 1, b \in 0 .. nR - 1 :
          yLeft(a) # Null /\ yLeft(a) = yRight(b)

NullRowsOut(l, r) ==
    \A m \in 1 .. Min2(Len(l), Len(r)) :
        /\ l[m] \in 0 .. nL - 1
        /\ r[m] \in 0 .. nR - 1
        /\ xLeft(l[m]) # Null
        /\ yLeft(l[m]) # Null
        /\ xRight(r[m]) # Null
        /\ yRight(r[m]) # Null

\* C4: no row with a null x or a null y is in a pair; L1 holds no position
\* of a null x, L2 no L1 position of a null y, and no such position is
\* marked visited.
C4_NullRowsAbsent ==
    Entered =>
        /\ \A k \in 1 .. Len(l1_order) : At(x, l1_order[k]) # Null
        /\ \A k \in 1 .. Len(l2_order) : At(y_ordered, l2_order[k]) # Null
        /\ \A k \in 1 .. Len(bit_array) : bit_array[k] => y_ordered[k] # Null
        /\ NullRowsOut(left_row_idx, right_row_idx)
        /\ NullRowsOut(join_left, join_right)

\* A Right row with a null y sits in L1, and the join returned pairs.
C4_Witness ==
    /\ pc = "done"
    /\ Len(join_left) >= 1
    /\ \E k \in 1 .. Len(l1_array) :
          y_ordered[k] = Null /\ l1_array[k].row_index < 0

\* C5: the two index vectors have the same length in every state.
C5_ParallelLengths ==
    /\ Len(left_row_idx) = Len(right_row_idx)
    /\ Len(join_left) = Len(join_right)

\* The kernel has left early with pairs out.
C5_Witness ==
    /\ pc = "kernel_done"
    /\ i < Len(l2_order)
    /\ Len(left_row_idx) >= 2

\* C6: every left index is a row of the left table and every right index a
\* row of the right table.
C6_IndicesInBounds ==
    /\ \A m \in 1 .. Len(left_row_idx) : left_row_idx[m] \in 0 .. nL - 1
    /\ \A m \in 1 .. Len(right_row_idx) : right_row_idx[m] \in 0 .. nR - 1

\* The last row of each table is in a pair.
C6_Witness ==
    /\ InKernel
    /\ nL >= 2
    /\ nR >= 2
    /\ \E m \in 1 .. Len(left_row_idx) :
          left_row_idx[m] = nL - 1 /\ right_row_idx[m] = nR - 1

NothingComputed ==
    /\ x = <<>>
    /\ y = <<>>
    /\ l1_order = <<>>
    /\ l2_order = <<>>
    /\ l1_array = <<>>
    /\ bit_array = <<>>
    /\ left_row_idx = <<>>
    /\ right_row_idx = <<>>
    /\ join_left = <<>>
    /\ join_right = <<>>

\* C7: a selection of the left side that is not two expressions ends the
\* call with an error naming the left side, one of the right side (the left
\* being two) with an error naming the right side, and in both cases nothing
\* has been sorted, walked or taken.
C7_ArityError ==
    pc # "start" =>
        /\ selected_left_len # 2 =>
              pc = "error" /\ result = "left" /\ NothingComputed
        /\ (selected_left_len = 2 /\ selected_right_len # 2) =>
              pc = "error" /\ result = "right" /\ NothingComputed
        /\ (selected_left_len = 2 /\ selected_right_len = 2) => pc # "error"

\* Both selections are wrong and the error names the left side.
C7_Witness ==
    /\ pc = "error"
    /\ selected_left_len # 2
    /\ selected_right_len # 2
    /\ result = "left"

Mirror(op) ==
    CASE op = "Lt" -> "Gt"
      [] op = "LtEq" -> "GtEq"
      [] op = "Gt" -> "Lt"
      [] op = "GtEq" -> "LtEq"

Transposed(l, r) == {<<p[2], p[1]>> : p \in PairSet(l, r)}

\* The unsliced join of the same tables, swapped, under operators o1 and o2.
SwappedJoin(o1, o2) ==
    iejoin(SubSeq(x, nL + 1, Len(x)), SubSeq(y, nL + 1, Len(y)),
           SubSeq(x, 1, nL), SubSeq(y, 1, nL), o1, o2, NoSlice)

SwappedPairs(o1, o2) ==
    LET sj == SwappedJoin(o1, o2) IN PairSet(sj.left, sj.right)

\* C8, as stated: the join of the swapped tables with op1 and op2 exchanged
\* returns the transposed match set.
C8_SwapOperators ==
    (pc = "done" /\ ~slice.some) =>
        SwappedPairs(operator2, operator1) = Transposed(join_left, join_right)

\* C8, amended: the join of the swapped tables with each operator replaced
\* by its mirror image (< with >, <= with >=) returns the transposed match
\* set.
C8_MirrorOperators ==
    (pc = "done" /\ ~slice.some) =>
        SwappedPairs(Mirror(operator1), Mirror(operator2))
            = Transposed(join_left, join_right)

\* Both joins return pairs, under operators that are not each other's mirror.
C8_Witness ==
    /\ pc = "done"
    /\ ~slice.some
    /\ operator2 # Mirror(operator1)
    /\ Len(join_left) >= 2
    /\ nL # nR

\* C9: a join with an empty table returns no pair.
C9_EmptyInput ==
    (Entered /\ (nL = 0 \/ nR = 0)) =>
        /\ left_row_idx = <<>>
        /\ right_row_idx = <<>>
        /\ join_left = <<>>
        /\ join_right = <<>>

\* The left table is empty, the right one is not, and the walk has marked
\* its rows.
C9_Witness ==
    /\ pc = "done"
    /\ nL = 0
    /\ nR >= 2
    /\ slice.some
    /\ \E k \in 1 .. Len(bit_array) : bit_array[k]

HasL1Pos(row_index) ==
    \E k \in 0 .. Len(l1_array) - 1 : At(l1_array, k).row_index = row_index

L1Pos(row_index) ==
    CHOOSE k \in 0 .. Len(l1_array) - 1 : At(l1_array, k).row_index = row_index

HasL2Pos(k) == \E m \in 0 .. Len(l2_order) - 1 : At(l2_order, m) = k

L2Pos(k) == CHOOSE m \in 0 .. Len(l2_order) - 1 : At(l2_order, m) = k

\* The L2 position of the Left entry and the L1 position of the Right entry
\* of the m-th pair.
HasPairKey(m) ==
    /\ m <= Len(right_row_idx)
    /\ HasL1Pos(left_row_idx[m] + 1)
    /\ HasL2Pos(L1Pos(left_row_idx[m] + 1))
    /\ HasL1Pos(-right_row_idx[m] - 1)

PairKey(m) ==
    <<L2Pos(L1Pos(left_row_idx[m] + 1)), L1Pos(-right_row_idx[m] - 1)>>

LexLess(a, b) == a[1] < b[1] \/ (a[1] = b[1] /\ a[2] < b[2])

\* C10: the pairs come out in strictly increasing order of (L2 position of
\* the Left entry, L1 position of the Right entry).
C10_EmissionOrder ==
    \A m \in 1 .. Len(left_row_idx) - 1 :
        /\ HasPairKey(m)
        /\ HasPairKey(m + 1)
        /\ LexLess(PairKey(m), PairKey(m + 1))

\* The non-strict walk is over: one Left entry has two pairs, and another
\* Left entry has a pair.
C10_Witness ==
    /\ pc = "kernel_done"
    /\ ~is_strict(operator2)
    /\ Len(left_row_idx) >= 3
    /\ \E m \in 1 .. Len(left_row_idx) - 1 : PairKey(m)[1] = PairKey(m + 1)[1]
    /\ \E m \in 1 .. Len(left_row_idx) - 1 : PairKey(m)[1] < PairKey(m + 1)[1]

(***************************************************************************)
(* The walks of the kernel.                                                *)
(***************************************************************************)

Walking == pc \in {"strict", "ns_loop", "ns_flush", "ns_final"}

IsRight(p) == At(l1_array, p).row_index < 0

IsLeft(p) == At(l1_array, p).row_index > 0

\* The L2 position the next step of the walk reads.
Cursor == IF pc \in {"strict", "ns_loop"} THEN i ELSE j

\* The L2 positions whose Left entries were given their matches.
Flushed == IF pc \in {"ns_flush", "ns_final"} THEN j ELSE run_start

\* Twice the positions not yet walked, twice the positions not yet flushed,
\* and one for the head of an iteration.
WalkMeasure ==
    IF ~Walking THEN 0
    ELSE 2 * (Len(l2_order) - i) + 2 * (Len(l2_order) - Flushed)
         + (IF pc = "ns_loop" THEN 1 ELSE 0)

\* What a step of the walk reads without a bounds check is there.
ReadsInBounds ==
    /\ Len(bit_array) = Len(l1_array)
    /\ Len(y_ordered) = Len(l1_array)
    /\ \A k \in 1 .. Len(l2_order) : l2_order[k] \in 0 .. Len(l1_array) - 1
    /\ \A a, b \in 1 .. Len(l2_order) : a # b => l2_order[a] # l2_order[b]
    /\ i \in 0 .. Len(l2_order)
    /\ j \in 0 .. Len(l2_order)
    /\ Walking => Cursor < Len(l2_order)
    /\ pc = "ns_flush" => (run_start <= j /\ j <= i /\ i < Len(l2_order))
    /\ pc = "ns_final" => (run_start <= j /\ i = Len(l2_order))

\* C11: from every state of a walk the kernel goes on without an error: what
\* it reads is in bounds, every step lowers a measure that starts no higher
\* than 4 * |L2| + 1 and stays non-negative, so every L2 position is visited
\* a bounded number of times and the walk ends; when it has ended the call
\* returns Ok.
C11_KernelTotal ==
    [][/\ Walking =>
            /\ ReadsInBounds
            /\ WalkMeasure <= 4 * Len(l2_order) + 1
            /\ pc' \in {"strict", "ns_loop", "ns_flush", "ns_final", "kernel_done"}
            /\ ReadsInBounds'
            /\ WalkMeasure' >= 0
            /\ WalkMeasure' < WalkMeasure
       /\ pc = "kernel_done" => (pc' = "done" /\ result' = "Ok")]_vars

\* A non-strict walk over four L2 positions in at least two runs has ended
\* with its last flush, under a slice bound.
C11_Witness ==
    /\ pc = "kernel_done"
    /\ ~is_strict(operator2)
    /\ Len(l2_order) = 4
    /\ i = 4
    /\ j = 4
    /\ run_start \in 1 .. 3
    /\ slice_end.some

\* The y value at an L2 position.
YAt(m) == At(y_ordered, At(l2_order, m))

\* The L2 position after the run of equal y values that holds position m.
RunEnd(m) ==
    LET later == {n \in m + 1 .. Len(l2_order) - 1 : YAt(n) # YAt(m)}
    IN  IF later = {} THEN Len(l2_order)
        ELSE CHOOSE n \in later : \A o \in later : n <= o

\* The first L2 position of the run of equal y values that holds position m.
RunStart(m) ==
    LET earlier == {n \in 0 .. m - 1 : YAt(n) # YAt(m)}
    IN  IF earlier = {} THEN 0
        ELSE (CHOOSE n \in earlier : \A o \in earlier : n >= o) + 1

\* The non-strict walk is about to give the entry at L2 position j its matches.
Emitting == (pc = "ns_flush" /\ j < i) \/ pc = "ns_final"

\* C12: in the non-strict walk, when the entry at an L2 position of a run R
\* is given its matches, the bit of every Right entry of R and of the runs
\* before R is set and the bit of no Right entry of a later run is set.
C12_RunMarkedBeforeFlush ==
    Emitting =>
        \A m \in 0 .. Len(l2_order) - 1 :
            IsRight(At(l2_order, m)) =>
                (At(bit_array, At(l2_order, m)) <=> m < RunEnd(j))

\* A Left entry is flushed while a Right entry that follows it in its own
\* run is marked and a Right entry of a later run is not.
C12_Witness ==
    /\ pc = "ns_flush"
    /\ j < i
    /\ IsLeft(At(l2_order, j))
    /\ \E m \in j + 1 .. i - 1 :
          IsRight(At(l2_order, m)) /\ At(bit_array, At(l2_order, m))
    /\ \E m \in i .. Len(l2_order) - 1 :
          IsRight(At(l2_order, m)) /\ ~At(bit_array, At(l2_order, m))

\* The L1 positions of the Right entries at the L2 positions before n.
RightsBefore(n) ==
    {At(l2_order, m) : m \in {o \in 0 .. n - 1 : IsRight(At(l2_order, o))}}

SetBits == {q \in 0 .. Len(bit_array) - 1 : At(bit_array, q)}

\* C13: in the strict walk, at the head of the iteration for L2 position i,
\* the set bits are the L1 positions of the Right entries at the L2
\* positions before i, and no other.
C13_StrictBits ==
    pc = "strict" => SetBits = RightsBefore(i)

\* The third iteration is about to start, a Right and a Left entry walked.
C13_Witness ==
    /\ pc = "strict"
    /\ i >= 2
    /\ Cardinality(SetBits) >= 1
    /\ \E m \in 0 .. i - 1 : IsLeft(At(l2_order, m))
    /\ \E m \in i .. Len(l2_order) - 1 : IsRight(At(l2_order, m))

\* C14 as it is stated: in the non-strict walk, at the head of every
\* iteration i, the set bits are the L1 positions of the Right entries at
\* the L2 positions before the first position of the run that holds i.
C14_BitsUpToPreviousRun ==
    pc = "ns_loop" => SetBits = RightsBefore(RunStart(i))

\* C14: in the non-strict walk, at the head of every iteration i, the set
\* bits are the L1 positions of the Right entries at the L2 positions before
\* i, those of the run that holds i among them.
C14_NonStrictBits ==
    pc = "ns_loop" => SetBits = RightsBefore(i)

\* The iteration about to start is inside a run, and a Right entry of that
\* run is marked.
C14_Witness ==
    /\ pc = "ns_loop"
    /\ i >= 1
    /\ RunStart(i) < i
    /\ \E m \in RunStart(i) .. i - 1 :
          IsRight(At(l2_order, m)) /\ At(bit_array, At(l2_order, m))
    /\ \E m \in 0 .. i - 1 : IsLeft(At(l2_order, m))

L1Value(q) == At(l1_array, q).value

\* C15: on the sorted L1 array, for every position idx, the index that
\* find_search_start_index returns is between idx and |L1|, no entry from
\* idx up to it satisfies L1[idx].value op1 entry.value, every entry from it
\* on does, and it is idx itself when op1 is not strict.
C15_SearchStart ==
    Entered =>
        \A idx \in 0 .. Len(l1_array) - 1 :
            LET start_index == find_search_start_index(l1_array, idx, operator1)
            IN  /\ idx <= start_index
                /\ start_index <= Len(l1_array)
                /\ \A q \in idx .. start_index - 1 :
                      ~Holds(operator1, L1Value(idx), L1Value(q))
                /\ \A q \in start_index .. Len(l1_array) - 1 :
                      Holds(operator1, L1Value(idx), L1Value(q))
                /\ ~is_strict(operator1) => start_index = idx

\* Under a strict op1 the search from a Left entry that is not the first of
\* L1 skips an entry of equal value and stops before the end of L1.
C15_Witness ==
    /\ Walking
    /\ is_strict(operator1)
    /\ \E idx \in 1 .. Len(l1_array) - 1 :
          /\ IsLeft(idx)
          /\ find_search_start_index(l1_array, idx, operator1) = idx + 2
          /\ idx + 2 < Len(l1_array)

\* What the kernel returns for the same orders with no slice bound.
Unbounded ==
    ie_join_impl_t(NoSlice,
                   [l1_order |-> l1_order, y_ordered |-> y_ordered, l2_order |-> l2_order],
                   operator1, operator2, x, left_height)

IsPrefix(s, t) == Len(s) <= Len(t) /\ s = SubSeq(t, 1, Len(s))

\* C16: under a slice with a non-negative offset the pairs the kernel
\* returns are a prefix of the pairs it returns with no slice bound, at
\* least min(offset + len, all matches) of them; under a negative offset,
\* as under no slice, it returns all of them.
C16_SlicePrefix ==
    pc = "kernel_done" =>
        LET u == Unbounded
        IN  /\ IsPrefix(left_row_idx, u.left_row_idx)
            /\ IsPrefix(right_row_idx, u.right_row_idx)
            /\ Len(left_row_idx) = Len(right_row_idx)
            /\ (slice.some /\ slice.offset >= 0) =>
                   Len(left_row_idx) >= Min2(slice.offset + slice.len, Len(u.left_row_idx))
            /\ ~(slice.some /\ slice.offset >= 0) =>
                   /\ left_row_idx = u.left_row_idx
                   /\ right_row_idx = u.right_row_idx

\* The kernel left early: it returned more pairs than the bound asks for and
\* fewer than there are.
C16_Witness ==
    /\ pc = "kernel_done"
    /\ slice.some
    /\ slice.offset >= 0
    /\ Len(left_row_idx) > slice.offset + slice.len
    /\ Len(left_row_idx) < Len(Unbounded.left_row_idx)

\* The assertion of line 291 for the scan that starts at L1 position p.
ScanAssertion(p) ==
    LET set_bits == on_set_bits_from(bit_array,
                                     find_search_start_index(l1_array, p, operator1))
    IN  \A m \in 1 .. Len(set_bits) : At(l1_array, set_bits[m]).row_index < 0

\* C17: in every state of either walk every set bit is the bit of an L1
\* entry with a negative row_index, so the scan of a Left entry asserts
\* r < 0 with success and every pair appended has a row of the right table,
\* decoded from a negative row_index, as its right half.
C17_SetBitsAreRight ==
    InKernel =>
        /\ \A q \in 0 .. Len(bit_array) - 1 : At(bit_array, q) => IsRight(q)
        /\ ((pc = "strict" \/ Emitting) /\ IsLeft(At(l2_order, Cursor))) =>
               ScanAssertion(At(l2_order, Cursor))
        /\ \A m \in 1 .. Len(right_row_idx) : right_row_idx[m] \in 0 .. nR - 1

\* A Left entry is about to be scanned, Left and Right entries walked before
\* it, a bit set at or after the start of its scan.
C17_Witness ==
    /\ pc = "strict" \/ Emitting
    /\ Cursor >= 2
    /\ IsLeft(At(l2_order, Cursor))
    /\ \E m \in 0 .. Cursor - 1 : IsLeft(At(l2_order, m))
    /\ \E q \in 0 .. Len(bit_array) - 1 :
          /\ At(bit_array, q)
          /\ q >= find_search_start_index(l1_array, At(l2_order, Cursor), operator1)

\* The L2 positions before this one were given to process_entry or to
\* process_lhs_entry.
EmitFrontier == IF pc = "strict" THEN i ELSE Flushed

\* The step about to be taken gives the entry at the cursor its matches.
Scanning == pc = "strict" \/ Emitting

NoPairTwice ==
    \A a, b \in 1 .. Min2(Len(left_row_idx), Len(right_row_idx)) :
        a # b => <<left_row_idx[a], right_row_idx[a]>> # <<left_row_idx[b], right_row_idx[b]>>

\* C18: in either walk the L2 positions are given their matches one after
\* the other and none twice: a step appends pairs only for the Left entry at
\* the cursor, the cursor is the first position not yet served, the
\* positions served never shrink, and so no pair is in the output twice.
C18_EmittedOnce ==
    [][Walking =>
          /\ IsPrefix(left_row_idx, left_row_idx')
          /\ \A m \in Len(left_row_idx) + 1 .. Len(left_row_idx') :
                /\ Scanning
                /\ IsLeft(At(l2_order, Cursor))
                /\ left_row_idx'[m] = At(l1_array, At(l2_order, Cursor)).row_index - 1
          /\ Scanning => Cursor = EmitFrontier
          /\ (Scanning /\ Walking') => EmitFrontier' = Cursor + 1
          /\ Walking' => EmitFrontier' >= EmitFrontier
          /\ NoPairTwice']_vars

\* The last flush of a non-strict walk is under way after an earlier flush
\* that appended pairs, a Left entry at the cursor.
C18_Witness ==
    /\ pc = "ns_final"
    /\ run_start >= 1
    /\ j > run_start
    /\ Len(left_row_idx) >= 1
    /\ IsLeft(At(l2_order, j))
    /\ \E m \in 0 .. run_start - 1 : IsLeft(At(l2_order, m))

\* The x value, and the side, of the row at an L1 position, read from the
\* order itself.
XAt(a) == At(x, At(l1_order, a))

FromLeft(a) == At(l1_order, a) < left_height

\* C19: in L1 an entry satisfies x op1 against every later entry of another
\* x value; in L2 an entry satisfies y op2 against every earlier entry of
\* another y value; among the L1 entries of one x value those of the left
\* table come before those of the right table.
C19_SortDirections ==
    Entered =>
        /\ \A a, b \in 0 .. Len(l1_order) - 1 :
              (a < b /\ XAt(a) # XAt(b)) => Holds(operator1, XAt(a), XAt(b))
        /\ \A a, b \in 0 .. Len(l2_order) - 1 :
              (a < b /\ YAt(a) # YAt(b)) => Holds(operator2, YAt(b), YAt(a))
        /\ \A a, b \in 0 .. Len(l1_order) - 1 :
              (a < b /\ XAt(a) = XAt(b)) => ~(~FromLeft(a) /\ FromLeft(b))

\* Both tables hold the same x value and another one, L2 holds two y values,
\* and a null was dropped.
C19_Witness ==
    /\ pc \in {"strict", "ns_loop"}
    /\ i = 0
    /\ Len(l1_order) < Len(x)
    /\ \E a, b \in 0 .. Len(l1_order) - 1 :
          a < b /\ XAt(a) = XAt(b) /\ FromLeft(a) /\ ~FromLeft(b)
    /\ \E a, b \in 0 .. Len(l1_order) - 1 : XAt(a) # XAt(b)
    /\ \E a, b \in 0 .. Len(l2_order) - 1 : YAt(a) # YAt(b)

\* The 0-based row of its own table that a row_index stands for.
DecodedRow(row_index) == IF row_index > 0 THEN row_index - 1 ELSE (-row_index) - 1

\* C20: the L1 array has one entry for each element of the order, in the
\* order's order, with the x value of that row; no row_index is 0; it is
\* idx + 1 exactly when the global index idx is below the height of the left
\* table and -((idx - nL) + 1) otherwise; decoded, it is the row's index in
\* its own table.
C20_L1Encoding ==
    Entered =>
        /\ Len(l1_array) = Len(l1_order)
        /\ \A k \in 1 .. Len(l1_order) :
              LET idx == l1_order[k]
                  row_index == l1_array[k].row_index
              IN  /\ l1_array[k].value = At(x, idx)
                  /\ row_index # 0
                  /\ row_index > 0 <=> idx < nL
                  /\ idx < nL =>
                        /\ row_index = idx + 1
                        /\ DecodedRow(row_index) = idx
                        /\ DecodedRow(row_index) \in 0 .. nL - 1
                  /\ idx >= nL =>
                        /\ row_index = -((idx - nL) + 1)
                        /\ DecodedRow(row_index) = idx - nL
                        /\ DecodedRow(row_index) \in 0 .. nR - 1

\* L1 holds the first and the last row of both tables, out of table order,
\* and a row with a null x is left out.
C20_Witness ==
    /\ Entered
    /\ nL = 2
    /\ nR = 2
    /\ Len(l1_order) = 3
    /\ \E k \in 1 .. Len(l1_array) : l1_array[k].row_index = 1
    /\ \E k \in 1 .. Len(l1_array) : l1_array[k].row_index = -1
    /\ \E k \in 1 .. Len(l1_array) : l1_array[k].row_index = -2
    /\ \E a, b \in 1 .. Len(l1_order) : a < b /\ l1_order[a] > l1_order[b]

(***************************************************************************)
(* HConcatSource.                                                          *)
(***************************************************************************)

\* The input source s has given all its batches.
Exhausted(s) == sources[s].pending = <<>>

\* C21: row r of the output, counted over all the chunks returned so far,
\* holds for each input source that source's r-th row, or a null when the
\* source has finished having given fewer than r rows; so no row of a
\* source is dropped, duplicated or out of its order.
C21_RowAlignment ==
    \A r \in 1 .. Len(emitted) :
        \A s \in SourceIds :
            \/ emitted[r][s] = r
            \/ /\ emitted[r][s] = Null
               /\ Exhausted(s)
               /\ sources[s].given_rows < r

\* The rows of the source s among the rows returned so far.
RowsOut(s) == {r \in 1 .. Len(emitted) : emitted[r][s] # Null}

\* C22: a call returns Finished only when, as it starts, no source has a
\* chunk in its buffer, and every source says Finished in it; a call that
\* starts with a chunk in a buffer, or with a source that has more to give,
\* returns GotMoreData; and when Finished is returned no buffer holds a row
\* and every row the sources gave has been returned, once.
C22_FinishedOnlyWhenDrained ==
    [][/\ returned' = "Finished" =>
            /\ \A s \in SourceIds : source_data[s] = <<>>
            /\ \A s \in SourceIds : Exhausted(s)
            /\ finished' = SourceIds
            /\ chunks' = <<>>
            /\ \A s \in SourceIds : source_data'[s] = <<>>
            /\ \A s \in SourceIds :
                  /\ Cardinality(RowsOut(s)') = sources'[s].given_rows
                  /\ {emitted'[r][s] : r \in RowsOut(s)'} = 1 .. sources'[s].given_rows
       /\ (\E s \in SourceIds : source_data[s] # <<>> \/ ~Exhausted(s)) =>
            returned' = "GotMoreData"
       /\ returned' \in {"Finished", "GotMoreData"}]_vars

\* Finished is returned after calls that returned data, one of them made
\* with a remainder in the buffer of the second source after the first
\* source had finished.
C22_Witness ==
    /\ returned = "Finished"
    /\ finished = SourceIds
    /\ chunk_index >= 2
    /\ \E r \in 1 .. Len(emitted) : emitted[r][1] = Null /\ emitted[r][2] # Null
    /\ \E r \in 1 .. Len(emitted) : emitted[r][1] # Null /\ emitted[r][2] # Null

\* The source s has a chunk in its buffer or a batch to give.
Live(s) == source_data[s] # <<>> \/ ~Exhausted(s)

FirstLive == CHOOSE s \in SourceIds : Live(s) /\ \A t \in SourceIds : Live(t) => s <= t

\* The heights of the chunks the source s holds once it was asked, if its
\* buffer was empty: those of its buffer, the oldest first, or those of the
\* batch it gives.
HeldSizes(s) ==
    IF source_data[s] # <<>>
    THEN [k \in 1 .. Len(source_data[s]) |->
             Len(source_data[s][Len(source_data[s]) + 1 - k].data)]
    ELSE Head(sources[s].pending)

\* C23: a call that returns data returns as many chunks as the first source,
\* in the order of the sources, that has not finished holds, each of the
\* height of that source's chunk; the chunk indices of the chunks returned
\* are consecutive, go on from those of the call before, and start at 0.
C23_ChunkShape ==
    [][returned' = "GotMoreData" =>
          /\ \E s \in SourceIds : Live(s)
          /\ Len(chunks') = Len(HeldSizes(FirstLive))
          /\ \A k \in 1 .. Len(chunks') :
                /\ Len(chunks'[k].data) = HeldSizes(FirstLive)[k]
                /\ chunks'[k].chunk_index = chunk_index + k - 1
          /\ chunk_index' = chunk_index + Len(chunks')
          /\ (returned = "none" /\ Len(chunks') > 0) => chunks'[1].chunk_index = 0]_vars

\* A call after another returned two chunks of different heights, taken from
\* what the second source held when the first source had finished.
C23_Witness ==
    /\ returned = "GotMoreData"
    /\ Len(chunks) = 2
    /\ Len(chunks[1].data) # Len(chunks[2].data)
    /\ chunks[1].chunk_index >= 1
    /\ 1 \in finished
    /\ \E r \in 1 .. Len(emitted) : emitted[r][1] # Null

====
